---- MODULE Spec2Model ----
(***************************************************************************)
(* Model of the IoT sensor network simulator: the goroutines of            *)
(* cmd/simulator/main.go (main, the per-sensor wrapper, the closer), the   *)
(* sensor goroutine of sensor.Start / Sensor.Run, Aggregator.Run and       *)
(* Publisher.Run, all communicating through the buffered channel dataCh    *)
(* and the cancellable context ctx.                                        *)
(***************************************************************************)
EXTENDS Integers, Sequences, FiniteSets, TLC

\* ---------------------------------------------------------------- bounds
NumSensors == 2      \* sensorCount (5000 in main.go), scaled down
Capacity == 1        \* capacity of dataCh (1000 in main.go), scaled down
MaxTicks == 2        \* ticker firings taken by all sensors in one run
TestCapacity == 2    \* capacity of the channel a test harness makes
FewSensors == 1      \* sensorCount of the runs checked for termination

Sensors == 1..NumSensors

\* ----------------------------------------------------------------- state
VARIABLES
    ctx,            \* TRUE once ctx is cancelled (signal or timeout)
    dataCh,         \* readings buffered in dataCh, oldest first
    chClosed,       \* TRUE once close(dataCh) has run
    enableNATS,     \* the feature flag after nats.NewClient was tried
    chCap,          \* capacity dataCh was made with
    sensorCount,    \* sensorCount of main: the slots its loop launches
    nilLogger,      \* TRUE if sensor.Start was handed a nil logger
    mainpc,         \* position of main
    mainI,          \* loop variable i of main's sensor loop
    sensorsWg,      \* counter of sensorsWg
    aggregatorWg,   \* counter of aggregatorWg
    publisherWg,    \* counter of publisherWg
    wpc,            \* position of main's wrapper goroutine of each sensor
    closerpc,       \* position of the closer goroutine
    spc,            \* position of the goroutine of sensor.Start, per id
    sampled,        \* readings each slot has sampled (ticks taken)
    sent,           \* MessagesSent per id
    restarts,       \* SensorRestarts per id
    activeSensors,  \* the ActiveSensors gauge
    inFlight,       \* ids whose send was pending when ctx was cancelled
                    \* and has not completed since
    faultsLive,     \* faults each slot suffered while ctx was not cancelled
    natsClosed,     \* TRUE once natsClient.Close() has run
    apc,            \* position of Aggregator.Run
    count,          \* count of Aggregator.Run
    ppc,            \* position of Publisher.Run
    pubData,        \* the reading Publisher.Run is publishing
    successCount,   \* successCount of Publisher.Run
    failureCount,   \* failureCount of Publisher.Run
    natsFailures    \* NATSPublishFailures per sensor id

vars == <<ctx, dataCh, chClosed, enableNATS, chCap, sensorCount, nilLogger,
          mainpc, mainI,
          sensorsWg, aggregatorWg, publisherWg, wpc, closerpc, spc, sampled,
          sent, restarts, activeSensors, inFlight, faultsLive, natsClosed,
          apc, count, ppc, pubData, successCount, failureCount,
          natsFailures>>

\* What is fixed when the components are constructed.
configVars == <<enableNATS, chCap, sensorCount, nilLogger>>

mainVars == <<mainpc, mainI, sensorsWg, wpc, closerpc, natsClosed>>
sensorVars ==
    <<spc, sampled, sent, restarts, activeSensors, inFlight, faultsLive>>
aggVars == <<apc, count, aggregatorWg>>
pubVars ==
    <<ppc, pubData, successCount, failureCount, natsFailures, publisherWg>>

NoData == <<0, 0>>

\* model.SensorData: the id and the index of the sample within its slot
SensorData(id, n) == <<id, n>>

RECURSIVE SumOver(_, _)
SumOver(f, S) ==
    IF S = {} THEN 0
    ELSE LET x == CHOOSE y \in S : TRUE IN f[x] + SumOver(f, S \ {x})

\* Readings all slots have sampled so far.
TotalSampled == SumOver(sampled, Sensors)

\* The process lives until main returns or an unrecovered panic ends it.
Running == mainpc \notin {"ended", "crashed"}

\* ------------------------------------------------------------------ Init
Init ==
    /\ ctx = FALSE
    /\ dataCh = <<>>
    /\ chClosed = FALSE
    /\ enableNATS \in BOOLEAN
    /\ chCap = Capacity
    /\ sensorCount = NumSensors
    /\ nilLogger = FALSE
    /\ mainpc = "spawn"
    /\ mainI = 1
    /\ sensorsWg = 0
    /\ aggregatorWg = 1
    /\ publisherWg = IF enableNATS THEN 1 ELSE 0
    /\ wpc = [s \in Sensors |-> "none"]
    /\ closerpc = "none"
    /\ spc = [s \in Sensors |-> "idle"]
    /\ sampled = [s \in Sensors |-> 0]
    /\ sent = [s \in Sensors |-> 0]
    /\ restarts = [s \in Sensors |-> 0]
    /\ activeSensors = 0
    /\ inFlight = {}
    /\ faultsLive = [s \in Sensors |-> 0]
    /\ natsClosed = FALSE
    /\ apc = "select"
    /\ count = 0
    /\ ppc = IF enableNATS THEN "select" ELSE "off"
    /\ pubData = NoData
    /\ successCount = 0
    /\ failureCount = 0
    /\ natsFailures = [s \in Sensors |-> 0]

\* --------------------------------------------------------- cancellation
\* SIGINT (stopMain) or the simulationDuration timeout cancels ctx.
Cancel ==
    /\ Running
    /\ ~ctx
    /\ ctx' = TRUE
    /\ inFlight' = {s \in Sensors : spc[s] = "send"}
    /\ UNCHANGED <<dataCh, chClosed, configVars, mainVars, spc, sampled,
                   sent, restarts, activeSensors, faultsLive, aggVars,
                   pubVars>>

\* ----------------------------------------------------------------- main
\* One iteration of main's sensor loop: sensorsWg.Add(1); go func(id).
MainSpawn ==
    /\ mainpc = "spawn"
    /\ mainI <= sensorCount
    /\ sensorsWg' = sensorsWg + 1
    /\ wpc' = [wpc EXCEPT ![mainI] = "start"]
    /\ mainI' = mainI + 1
    /\ UNCHANGED <<ctx, dataCh, chClosed, configVars, mainpc, closerpc,
                   natsClosed, sensorVars, aggVars, pubVars>>

\* After the loop main launches the closer goroutine.
MainLaunchCloser ==
    /\ mainpc = "spawn"
    /\ mainI > sensorCount
    /\ closerpc' = "wait"
    /\ mainpc' = "waitAgg"
    /\ UNCHANGED <<ctx, dataCh, chClosed, configVars, mainI, sensorsWg, wpc,
                   natsClosed, sensorVars, aggVars, pubVars>>

\* Variant of MainWaitAggregator that never waits for the Publisher.
MainWaitAggregatorSkip ==
    /\ mainpc = "waitAgg"
    /\ aggregatorWg = 0
    /\ mainpc' = "exit"
    /\ UNCHANGED <<ctx, dataCh, chClosed, configVars, mainI, sensorsWg, wpc,
                   closerpc, natsClosed, sensorVars, aggVars, pubVars>>

\* Variant of MainWaitAggregator in which main first waits for the closer
\* goroutine to have closed the queue.
MainWaitAggregatorClosed ==
    /\ mainpc = "waitAgg"
    /\ closerpc = "closed"
    /\ aggregatorWg = 0
    /\ mainpc' = IF enableNATS THEN "waitPub" ELSE "exit"
    /\ UNCHANGED <<ctx, dataCh, chClosed, configVars, mainI, sensorsWg, wpc,
                   closerpc, natsClosed, sensorVars, aggVars, pubVars>>

\* aggregatorWg.Wait() returns.
MainWaitAggregator ==
    /\ mainpc = "waitAgg"
    /\ aggregatorWg = 0
    /\ mainpc' = IF enableNATS THEN "waitPub" ELSE "exit"
    /\ UNCHANGED <<ctx, dataCh, chClosed, configVars, mainI, sensorsWg, wpc,
                   closerpc, natsClosed, sensorVars, aggVars, pubVars>>

\* publisherWg.Wait() returns; main logs the final line.
MainWaitPublisher ==
    /\ mainpc = "waitPub"
    /\ publisherWg = 0
    /\ mainpc' = "exit"
    /\ UNCHANGED <<ctx, dataCh, chClosed, configVars, mainI, sensorsWg, wpc,
                   closerpc, natsClosed, sensorVars, aggVars, pubVars>>

\* main returns: its deferred functions run (cancel(), and natsClient.Close()
\* if the client was created) and the process ends.
MainReturn ==
    /\ mainpc = "exit"
    /\ ctx' = TRUE
    /\ natsClosed' = enableNATS
    /\ mainpc' = "ended"
    /\ UNCHANGED <<dataCh, chClosed, configVars, mainI, sensorsWg, wpc,
                   closerpc, sensorVars, aggVars, pubVars>>

\* The wrapper goroutine calls sensor.Start, which spawns the sensor
\* goroutine and returns at once.
WrapperStart(s) ==
    /\ Running
    /\ wpc[s] = "start"
    /\ wpc' = [wpc EXCEPT ![s] = "wait"]
    /\ spc' = [spc EXCEPT ![s] = "starting"]
    /\ UNCHANGED <<ctx, dataCh, chClosed, configVars, mainpc, mainI,
                   sensorsWg, closerpc, natsClosed, sampled, sent, restarts,
                   activeSensors, inFlight, faultsLive,
                   aggVars, pubVars>>

\* Variant of WrapperDone that does not wait for <-ctx.Done().
WrapperDoneEarly(s) ==
    /\ Running
    /\ wpc[s] = "wait"
    /\ wpc' = [wpc EXCEPT ![s] = "done"]
    /\ sensorsWg' = sensorsWg - 1
    /\ UNCHANGED <<ctx, dataCh, chClosed, configVars, mainpc, mainI,
                   closerpc, natsClosed, sensorVars, aggVars, pubVars>>

\* The wrapper passes <-ctx.Done() and its deferred sensorsWg.Done() runs.
WrapperDone(s) ==
    /\ Running
    /\ wpc[s] = "wait"
    /\ ctx
    /\ wpc' = [wpc EXCEPT ![s] = "done"]
    /\ sensorsWg' = sensorsWg - 1
    /\ UNCHANGED <<ctx, dataCh, chClosed, configVars, mainpc, mainI,
                   closerpc, natsClosed, sensorVars, aggVars, pubVars>>

\* Variant of CloserClose that closes without sensorsWg.Wait().
CloserCloseEarly ==
    /\ Running
    /\ closerpc = "wait"
    /\ chClosed' = TRUE
    /\ closerpc' = "closed"
    /\ UNCHANGED <<ctx, dataCh, configVars, mainpc, mainI, sensorsWg, wpc,
                   natsClosed, sensorVars, aggVars, pubVars>>

\* The closer goroutine: sensorsWg.Wait() returns, then close(dataCh).
CloserClose ==
    /\ Running
    /\ closerpc = "wait"
    /\ sensorsWg = 0
    /\ chClosed' = TRUE
    /\ closerpc' = "closed"
    /\ UNCHANGED <<ctx, dataCh, configVars, mainpc, mainI, sensorsWg, wpc,
                   natsClosed, sensorVars, aggVars, pubVars>>

\* --------------------------------------------------------------- sensor
\* The goroutine of Start builds the Sensor and enters Run.
RunBegin(s) ==
    /\ Running
    /\ spc[s] = "starting"
    /\ spc' = [spc EXCEPT ![s] = "select"]
    /\ activeSensors' = activeSensors + 1
    /\ UNCHANGED <<ctx, dataCh, chClosed, configVars, mainVars, sampled,
                   sent, restarts, inFlight, faultsLive,
                   aggVars, pubVars>>

\* Variant of RunCtxDone whose ctx.Done case goes round the loop again
\* instead of returning.
RunCtxDoneContinue(s) ==
    /\ Running
    /\ spc[s] = "select"
    /\ ctx
    /\ UNCHANGED vars

\* Run's select takes <-ctx.Done(): Run returns, the goroutine ends.
RunCtxDone(s) ==
    /\ Running
    /\ spc[s] = "select"
    /\ ctx
    /\ spc' = [spc EXCEPT ![s] = "stopped"]
    /\ activeSensors' = activeSensors - 1
    /\ UNCHANGED <<ctx, dataCh, chClosed, configVars, mainVars, sampled,
                   sent, restarts, inFlight, faultsLive,
                   aggVars, pubVars>>

\* Variant of RunTick in which the ctx.Done case does not leave the loop:
\* a Run that has observed cancellation still takes ticks.
RunTickStopped(s) ==
    /\ Running
    /\ spc[s] \in {"select", "stopped"}
    /\ TotalSampled < MaxTicks
    /\ sampled' = [sampled EXCEPT ![s] = @ + 1]
    /\ spc' = [spc EXCEPT ![s] = "send"]
    /\ UNCHANGED <<ctx, dataCh, chClosed, configVars, mainVars, sent,
                   restarts, activeSensors, inFlight, faultsLive,
                   aggVars, pubVars>>

\* Run's select takes <-ticker.C: a reading is sampled and the send begins.
RunTick(s) ==
    /\ Running
    /\ spc[s] = "select"
    /\ TotalSampled < MaxTicks
    /\ sampled' = [sampled EXCEPT ![s] = @ + 1]
    /\ spc' = [spc EXCEPT ![s] = "send"]
    /\ UNCHANGED <<ctx, dataCh, chClosed, configVars, mainVars, sent,
                   restarts, activeSensors, inFlight, faultsLive,
                   aggVars, pubVars>>

\* Variant of SendReady that ignores the capacity of the buffer.
SendReadyUnbounded == ~chClosed

\* A send on an open channel completes when the buffer has room.
SendReady == ~chClosed /\ Len(dataCh) < chCap

\* s.DataCh <- data completes; MessagesSent is incremented.
RunSend(s) ==
    /\ Running
    /\ spc[s] = "send"
    /\ SendReady
    /\ dataCh' = Append(dataCh, SensorData(s, sampled[s]))
    /\ sent' = [sent EXCEPT ![s] = @ + 1]
    /\ spc' = [spc EXCEPT ![s] = "select"]
    /\ inFlight' = inFlight \ {s}
    /\ UNCHANGED <<ctx, chClosed, configVars, mainVars, sampled, restarts,
                   activeSensors, faultsLive, aggVars, pubVars>>

\* Variant of RunSendClosed in which a send on a closed channel blocks for
\* ever instead of panicking.
RunSendClosedBlocks(s) ==
    /\ Running
    /\ spc[s] = "send"
    /\ chClosed
    /\ UNCHANGED vars

\* Variant of RunSendClosed with no recover() in Start: the panic leaves
\* the goroutine and ends the process.
RunSendClosedCrash(s) ==
    /\ Running
    /\ spc[s] = "send"
    /\ chClosed
    /\ spc' = [spc EXCEPT ![s] = "panicked"]
    /\ activeSensors' = activeSensors - 1
    /\ faultsLive' = [faultsLive EXCEPT ![s] = IF ctx THEN @ ELSE @ + 1]
    /\ mainpc' = "crashed"
    /\ UNCHANGED <<ctx, dataCh, chClosed, configVars, mainI, sensorsWg, wpc,
                   closerpc, natsClosed, sampled, sent, restarts, inFlight,
                   aggVars, pubVars>>

\* Variant of RunSendClosed in which Run does not defer ActiveSensors.Dec.
RunSendClosedNoDec(s) ==
    /\ Running
    /\ spc[s] = "send"
    /\ chClosed
    /\ spc' = [spc EXCEPT ![s] = "panicked"]
    /\ faultsLive' = [faultsLive EXCEPT ![s] = IF ctx THEN @ ELSE @ + 1]
    /\ UNCHANGED <<ctx, dataCh, chClosed, configVars, mainVars, sampled,
                   sent, restarts, activeSensors, inFlight, aggVars,
                   pubVars>>

\* s.DataCh <- data on a closed channel panics; Run unwinds (its deferred
\* ActiveSensors.Dec runs) into the deferred function of Start.
RunSendClosed(s) ==
    /\ Running
    /\ spc[s] = "send"
    /\ chClosed
    /\ spc' = [spc EXCEPT ![s] = "panicked"]
    /\ activeSensors' = activeSensors - 1
    /\ faultsLive' = [faultsLive EXCEPT ![s] = IF ctx THEN @ ELSE @ + 1]
    /\ UNCHANGED <<ctx, dataCh, chClosed, configVars, mainVars, sampled,
                   sent, restarts, inFlight, aggVars, pubVars>>

\* Variant of AfterRecover that restarts whatever the context says.
AfterRecoverAlways(s) == "starting"

\* Variant of AfterRecover that restarts a slot after its first fault only.
AfterRecoverOnce(s) ==
    IF ctx \/ restarts[s] >= 1 THEN "stopped" ELSE "starting"

\* The position after recover(): restart only if ctx.Err() == nil.
AfterRecover(s) == IF ctx THEN "stopped" ELSE "starting"

\* Variant of StartRecover that restarts without counting the restart.
StartRecoverUncounted(s) ==
    /\ Running
    /\ spc[s] = "panicked"
    /\ IF nilLogger
       THEN /\ mainpc' = "crashed"
            /\ UNCHANGED spc
       ELSE /\ spc' = [spc EXCEPT ![s] = AfterRecover(s)]
            /\ UNCHANGED mainpc
    /\ UNCHANGED <<ctx, dataCh, chClosed, configVars, mainI, sensorsWg, wpc,
                   closerpc, natsClosed, sampled, sent, restarts,
                   activeSensors, inFlight, faultsLive, aggVars, pubVars>>

\* The deferred function of Start recovers the panic, counts the restart
\* and calls Start again unless the context is done.  Its first statement
\* is l.With(...) on the logger Start was handed: on a nil logger that
\* dereferences nil inside the deferred function, a panic nothing recovers,
\* and the process ends.
StartRecover(s) ==
    /\ Running
    /\ spc[s] = "panicked"
    /\ IF nilLogger
       THEN /\ mainpc' = "crashed"
            /\ UNCHANGED <<spc, restarts>>
       ELSE /\ spc' = [spc EXCEPT ![s] = AfterRecover(s)]
            /\ restarts' = [restarts EXCEPT ![s] =
                    IF AfterRecover(s) = "starting" THEN @ + 1 ELSE @]
            /\ UNCHANGED mainpc
    /\ UNCHANGED <<ctx, dataCh, chClosed, configVars, mainI, sensorsWg, wpc,
                   closerpc, natsClosed, sampled, sent, activeSensors,
                   inFlight, faultsLive, aggVars, pubVars>>

\* ----------------------------------------------------------- aggregator
\* Variant of AggReceive that takes the newest buffered reading.
AggReceiveNewest ==
    /\ Running
    /\ apc = "select"
    /\ Len(dataCh) > 0
    /\ dataCh' = SubSeq(dataCh, 1, Len(dataCh) - 1)
    /\ count' = count + 1
    /\ UNCHANGED <<ctx, chClosed, configVars, mainVars, sensorVars, apc,
                   aggregatorWg, pubVars>>

\* The select of Aggregator.Run receives a reading: count++.
AggReceive ==
    /\ Running
    /\ apc = "select"
    /\ Len(dataCh) > 0
    /\ dataCh' = Tail(dataCh)
    /\ count' = count + 1
    /\ UNCHANGED <<ctx, chClosed, configVars, mainVars, sensorVars, apc,
                   aggregatorWg, pubVars>>

\* Variant of AggClosed that ignores the ok flag and stays in the loop.
AggClosedSpin ==
    /\ Running
    /\ apc = "select"
    /\ chClosed
    /\ Len(dataCh) = 0
    /\ UNCHANGED vars

\* The receive reports !ok (closed and empty): Run returns.
AggClosed ==
    /\ Running
    /\ apc = "select"
    /\ chClosed
    /\ Len(dataCh) = 0
    /\ apc' = "returned"
    /\ aggregatorWg' = aggregatorWg - 1
    /\ UNCHANGED <<ctx, dataCh, chClosed, configVars, mainVars, sensorVars,
                   count, pubVars>>

\* Variant of AggCtxDone in which the Aggregator closes the queue as it
\* leaves.
AggCtxDoneCloses ==
    /\ Running
    /\ apc = "select"
    /\ ctx
    /\ apc' = "returned"
    /\ aggregatorWg' = aggregatorWg - 1
    /\ chClosed' = TRUE
    /\ UNCHANGED <<ctx, dataCh, configVars, mainVars, sensorVars, count,
                   pubVars>>

\* Variant of AggCtxDone that honours cancellation only once the queue is
\* closed and empty.
AggCtxDoneDrain ==
    /\ Running
    /\ apc = "select"
    /\ ctx
    /\ chClosed
    /\ Len(dataCh) = 0
    /\ apc' = "returned"
    /\ aggregatorWg' = aggregatorWg - 1
    /\ UNCHANGED <<ctx, dataCh, chClosed, configVars, mainVars, sensorVars,
                   count, pubVars>>

\* The select takes <-ctx.Done(): Run returns.
AggCtxDone ==
    /\ Running
    /\ apc = "select"
    /\ ctx
    /\ apc' = "returned"
    /\ aggregatorWg' = aggregatorWg - 1
    /\ UNCHANGED <<ctx, dataCh, chClosed, configVars, mainVars, sensorVars,
                   count, pubVars>>

\* ------------------------------------------------------------ publisher
\* Variant of PubReceive that reads the oldest reading and leaves it in
\* the queue.
PubReceivePeek ==
    /\ Running
    /\ ppc = "select"
    /\ Len(dataCh) > 0
    /\ pubData' = Head(dataCh)
    /\ ppc' = "publish"
    /\ UNCHANGED <<ctx, dataCh, chClosed, configVars, mainVars, sensorVars,
                   aggVars, successCount, failureCount, natsFailures,
                   publisherWg>>

\* The select of Publisher.Run receives a reading from the same dataCh.
PubReceive ==
    /\ Running
    /\ ppc = "select"
    /\ Len(dataCh) > 0
    /\ pubData' = Head(dataCh)
    /\ dataCh' = Tail(dataCh)
    /\ ppc' = "publish"
    /\ UNCHANGED <<ctx, chClosed, configVars, mainVars, sensorVars, aggVars,
                   successCount, failureCount, natsFailures, publisherWg>>

\* Variant of PubPublish whose failure branch falls through into the
\* success branch.
PubPublishBoth ==
    /\ Running
    /\ ppc = "publish"
    /\ \E ok \in BOOLEAN :
          /\ successCount' = successCount + 1
          /\ failureCount' = IF ok THEN failureCount ELSE failureCount + 1
          /\ natsFailures' = IF ok THEN natsFailures
                ELSE [natsFailures EXCEPT ![pubData[1]] = @ + 1]
    /\ pubData' = NoData
    /\ ppc' = "select"
    /\ UNCHANGED <<ctx, dataCh, chClosed, configVars, mainVars, sensorVars,
                   aggVars, publisherWg>>

\* Variant of PubPublish that keeps a reading whose publish failed and
\* publishes it again.
PubPublishRetry ==
    /\ Running
    /\ ppc = "publish"
    /\ \E ok \in BOOLEAN :
          /\ successCount' = IF ok THEN successCount + 1 ELSE successCount
          /\ failureCount' = IF ok THEN failureCount ELSE failureCount + 1
          /\ natsFailures' = IF ok THEN natsFailures
                ELSE [natsFailures EXCEPT ![pubData[1]] = @ + 1]
          /\ pubData' = IF ok THEN NoData ELSE pubData
          /\ ppc' = IF ok THEN "select" ELSE "publish"
    /\ UNCHANGED <<ctx, dataCh, chClosed, configVars, mainVars, sensorVars,
                   aggVars, publisherWg>>

\* p.publish returns: nil counts a success, an error counts a failure.
PubPublish ==
    /\ Running
    /\ ppc = "publish"
    /\ \E ok \in BOOLEAN :
          /\ successCount' = IF ok THEN successCount + 1 ELSE successCount
          /\ failureCount' = IF ok THEN failureCount ELSE failureCount + 1
          /\ natsFailures' = IF ok THEN natsFailures
                ELSE [natsFailures EXCEPT ![pubData[1]] = @ + 1]
    /\ pubData' = NoData
    /\ ppc' = "select"
    /\ UNCHANGED <<ctx, dataCh, chClosed, configVars, mainVars, sensorVars,
                   aggVars, publisherWg>>

\* Variant of PubClosed that ignores the ok flag and stays in the loop.
PubClosedSpin ==
    /\ Running
    /\ ppc = "select"
    /\ chClosed
    /\ Len(dataCh) = 0
    /\ UNCHANGED vars

\* The receive reports !ok: Run returns.
PubClosed ==
    /\ Running
    /\ ppc = "select"
    /\ chClosed
    /\ Len(dataCh) = 0
    /\ ppc' = "returned"
    /\ publisherWg' = publisherWg - 1
    /\ UNCHANGED <<ctx, dataCh, chClosed, configVars, mainVars, sensorVars,
                   aggVars, pubData, successCount, failureCount,
                   natsFailures>>

\* Variant of PubCtxDone that honours cancellation only once the queue is
\* closed and empty.
PubCtxDoneDrain ==
    /\ Running
    /\ ppc = "select"
    /\ ctx
    /\ chClosed
    /\ Len(dataCh) = 0
    /\ ppc' = "returned"
    /\ publisherWg' = publisherWg - 1
    /\ UNCHANGED <<ctx, dataCh, chClosed, configVars, mainVars, sensorVars,
                   aggVars, pubData, successCount, failureCount,
                   natsFailures>>

\* The select takes <-ctx.Done(): Run returns.
PubCtxDone ==
    /\ Running
    /\ ppc = "select"
    /\ ctx
    /\ ppc' = "returned"
    /\ publisherWg' = publisherWg - 1
    /\ UNCHANGED <<ctx, dataCh, chClosed, configVars, mainVars, sensorVars,
                   aggVars, pubData, successCount, failureCount,
                   natsFailures>>

\* ------------------------------------------------------- specifications
Next ==
    \/ Cancel
    \/ MainSpawn
    \/ MainLaunchCloser
    \/ MainWaitAggregator
    \/ MainWaitPublisher
    \/ MainReturn
    \/ CloserClose
    \/ AggReceive
    \/ AggClosed
    \/ AggCtxDone
    \/ PubReceive
    \/ PubPublish
    \/ PubClosed
    \/ PubCtxDone
    \/ \E s \in Sensors : WrapperStart(s)
    \/ \E s \in Sensors : WrapperDone(s)
    \/ \E s \in Sensors : RunBegin(s)
    \/ \E s \in Sensors : RunCtxDone(s)
    \/ \E s \in Sensors : RunTick(s)
    \/ \E s \in Sensors : RunSend(s)
    \/ \E s \in Sensors : RunSendClosed(s)
    \/ \E s \in Sensors : StartRecover(s)

Spec == Init /\ [][Next]_vars

TypeOK ==
    /\ ctx \in BOOLEAN
    /\ chClosed \in BOOLEAN
    /\ enableNATS \in BOOLEAN
    /\ chCap \in {Capacity, TestCapacity}
    /\ sensorCount \in {NumSensors, FewSensors}
    /\ nilLogger \in BOOLEAN
    /\ mainpc \in {"spawn", "waitAgg", "waitPub", "exit", "ended", "test",
                   "crashed"}
    /\ mainI \in 1..(NumSensors + 1)
    /\ sensorsWg \in 0..NumSensors
    /\ aggregatorWg \in 0..1
    /\ publisherWg \in 0..1
    /\ wpc \in [Sensors -> {"none", "start", "wait", "done"}]
    /\ closerpc \in {"none", "wait", "closed"}
    /\ spc \in [Sensors -> {"idle", "starting", "select", "send",
                            "panicked", "stopped"}]
    /\ sampled \in [Sensors -> 0..MaxTicks]
    /\ sent \in [Sensors -> 0..MaxTicks]
    /\ restarts \in [Sensors -> 0..MaxTicks]
    /\ activeSensors \in 0..NumSensors
    /\ inFlight \subseteq Sensors
    /\ faultsLive \in [Sensors -> 0..MaxTicks]
    /\ natsClosed \in BOOLEAN
    /\ apc \in {"none", "select", "returned"}
    /\ count \in 0..MaxTicks
    /\ ppc \in {"off", "select", "publish", "returned"}
    /\ successCount \in 0..MaxTicks
    /\ failureCount \in 0..MaxTicks
    /\ natsFailures \in [Sensors -> 0..MaxTicks]

\* TestStart_PanicRecovery: the channel is closed before Start is called
\* and the context is live; the test's deferred cancel() ends it.  One
\* Start call per id.
InitRecovery ==
    /\ ctx = FALSE
    /\ dataCh = <<>>
    /\ chClosed = TRUE
    /\ enableNATS = FALSE
    /\ chCap = Capacity
    /\ sensorCount = NumSensors
    /\ nilLogger = FALSE
    /\ mainpc = "test"
    /\ mainI = 1
    /\ sensorsWg = 0
    /\ aggregatorWg = 0
    /\ publisherWg = 0
    /\ wpc = [s \in Sensors |-> "none"]
    /\ closerpc = "none"
    /\ spc = [s \in Sensors |-> "starting"]
    /\ sampled = [s \in Sensors |-> 0]
    /\ sent = [s \in Sensors |-> 0]
    /\ restarts = [s \in Sensors |-> 0]
    /\ activeSensors = 0
    /\ inFlight = {}
    /\ faultsLive = [s \in Sensors |-> 0]
    /\ natsClosed = FALSE
    /\ apc = "none"
    /\ count = 0
    /\ ppc = "off"
    /\ pubData = NoData
    /\ successCount = 0
    /\ failureCount = 0
    /\ natsFailures = [s \in Sensors |-> 0]

NextRecovery ==
    \/ Cancel
    \/ \E s \in Sensors : RunBegin(s)
    \/ \E s \in Sensors : RunCtxDone(s)
    \/ \E s \in Sensors : RunTick(s)
    \/ \E s \in Sensors : RunSendClosed(s)
    \/ \E s \in Sensors : StartRecover(s)

SpecRecovery == InitRecovery /\ [][NextRecovery]_vars

\* The aggregator tests (TestAggregator_Run_StopsOnContextCancel,
\* TestAggregator_Run_StopsOnChannelClose): Aggregator.Run reads dataCh
\* while the test may cancel the context or close the channel at any time;
\* the goroutines of Start are the senders.
InitAggregator ==
    /\ ctx = FALSE
    /\ dataCh = <<>>
    /\ chClosed = FALSE
    /\ enableNATS = FALSE
    /\ chCap = Capacity
    /\ sensorCount = NumSensors
    /\ nilLogger = FALSE
    /\ mainpc = "test"
    /\ mainI = 1
    /\ sensorsWg = 0
    /\ aggregatorWg = 1
    /\ publisherWg = 0
    /\ wpc = [s \in Sensors |-> "none"]
    /\ closerpc = "none"
    /\ spc = [s \in Sensors |-> "starting"]
    /\ sampled = [s \in Sensors |-> 0]
    /\ sent = [s \in Sensors |-> 0]
    /\ restarts = [s \in Sensors |-> 0]
    /\ activeSensors = 0
    /\ inFlight = {}
    /\ faultsLive = [s \in Sensors |-> 0]
    /\ natsClosed = FALSE
    /\ apc = "select"
    /\ count = 0
    /\ ppc = "off"
    /\ pubData = NoData
    /\ successCount = 0
    /\ failureCount = 0
    /\ natsFailures = [s \in Sensors |-> 0]

\* The test closes the channel: close(dataCh).
TestClose ==
    /\ mainpc = "test"
    /\ ~chClosed
    /\ chClosed' = TRUE
    /\ UNCHANGED <<ctx, dataCh, configVars, mainVars, sensorVars, aggVars,
                   pubVars>>

NextAggregator ==
    \/ Cancel
    \/ TestClose
    \/ AggReceive
    \/ AggClosed
    \/ AggCtxDone
    \/ \E s \in Sensors : RunBegin(s)
    \/ \E s \in Sensors : RunCtxDone(s)
    \/ \E s \in Sensors : RunTick(s)
    \/ \E s \in Sensors : RunSend(s)
    \/ \E s \in Sensors : RunSendClosed(s)
    \/ \E s \in Sensors : StartRecover(s)

\* A select of Go picks among its ready cases at random, so a case that
\* stays ready is taken eventually.
FairAggregator ==
    /\ WF_vars(AggReceive)
    /\ WF_vars(AggClosed)
    /\ WF_vars(AggCtxDone)

SpecAggregator == InitAggregator /\ [][NextAggregator]_vars /\ FairAggregator

\* The publisher tests (TestPublisher_Run_StopsOnContextCancel,
\* TestPublisher_Run_StopsOnChannelClose): Publisher.Run is the only reader
\* of dataCh while the test may cancel the context or close the channel at
\* any time; the goroutines of Start are the senders.
InitPublisher ==
    /\ ctx = FALSE
    /\ dataCh = <<>>
    /\ chClosed = FALSE
    /\ enableNATS = TRUE
    /\ chCap = TestCapacity
    /\ sensorCount = NumSensors
    /\ nilLogger = FALSE
    /\ mainpc = "test"
    /\ mainI = 1
    /\ sensorsWg = 0
    /\ aggregatorWg = 0
    /\ publisherWg = 1
    /\ wpc = [s \in Sensors |-> "none"]
    /\ closerpc = "none"
    /\ spc = [s \in Sensors |-> "starting"]
    /\ sampled = [s \in Sensors |-> 0]
    /\ sent = [s \in Sensors |-> 0]
    /\ restarts = [s \in Sensors |-> 0]
    /\ activeSensors = 0
    /\ inFlight = {}
    /\ faultsLive = [s \in Sensors |-> 0]
    /\ natsClosed = FALSE
    /\ apc = "none"
    /\ count = 0
    /\ ppc = "select"
    /\ pubData = NoData
    /\ successCount = 0
    /\ failureCount = 0
    /\ natsFailures = [s \in Sensors |-> 0]

NextPublisher ==
    \/ Cancel
    \/ TestClose
    \/ PubReceive
    \/ PubPublish
    \/ PubClosed
    \/ PubCtxDone
    \/ \E s \in Sensors : RunBegin(s)
    \/ \E s \in Sensors : RunCtxDone(s)
    \/ \E s \in Sensors : RunTick(s)
    \/ \E s \in Sensors : RunSend(s)
    \/ \E s \in Sensors : RunSendClosed(s)
    \/ \E s \in Sensors : StartRecover(s)

\* p.publish returns within its two-second timeout, and the random choice
\* of select takes the ctx.Done case eventually although each receive
\* leaves the select for the time of one publish.
FairPublisher ==
    /\ WF_vars(PubReceive)
    /\ WF_vars(PubPublish)
    /\ WF_vars(PubClosed)
    /\ SF_vars(PubCtxDone)

SpecPublisher == InitPublisher /\ [][NextPublisher]_vars /\ FairPublisher

\* The pipeline main wires (the goroutines of Start feeding dataCh, which
\* Aggregator.Run and Publisher.Run both read), driven as the component
\* tests drive it: the context may be cancelled and the channel closed at
\* any time.
InitPipeline ==
    /\ ctx = FALSE
    /\ dataCh = <<>>
    /\ chClosed = FALSE
    /\ enableNATS = TRUE
    /\ chCap = TestCapacity
    /\ sensorCount = NumSensors
    /\ nilLogger = FALSE
    /\ mainpc = "test"
    /\ mainI = 1
    /\ sensorsWg = 0
    /\ aggregatorWg = 1
    /\ publisherWg = 1
    /\ wpc = [s \in Sensors |-> "none"]
    /\ closerpc = "none"
    /\ spc = [s \in Sensors |-> "starting"]
    /\ sampled = [s \in Sensors |-> 0]
    /\ sent = [s \in Sensors |-> 0]
    /\ restarts = [s \in Sensors |-> 0]
    /\ activeSensors = 0
    /\ inFlight = {}
    /\ faultsLive = [s \in Sensors |-> 0]
    /\ natsClosed = FALSE
    /\ apc = "select"
    /\ count = 0
    /\ ppc = "select"
    /\ pubData = NoData
    /\ successCount = 0
    /\ failureCount = 0
    /\ natsFailures = [s \in Sensors |-> 0]

NextPipeline ==
    \/ Cancel
    \/ TestClose
    \/ AggReceive
    \/ AggClosed
    \/ AggCtxDone
    \/ PubReceive
    \/ PubPublish
    \/ PubClosed
    \/ PubCtxDone
    \/ \E s \in Sensors : RunBegin(s)
    \/ \E s \in Sensors : RunCtxDone(s)
    \/ \E s \in Sensors : RunTick(s)
    \/ \E s \in Sensors : RunSend(s)
    \/ \E s \in Sensors : RunSendClosed(s)
    \/ \E s \in Sensors : StartRecover(s)

SpecPipeline == InitPipeline /\ [][NextPipeline]_vars

\* Every sensor goroutine is scheduled, and the random choice of Run's
\* select takes the ctx.Done case eventually although ticks keep arriving.
FairSensors ==
    \A s \in Sensors :
        /\ WF_vars(RunBegin(s))
        /\ SF_vars(RunCtxDone(s))
        /\ WF_vars(RunSend(s))
        /\ WF_vars(RunSendClosed(s))
        /\ WF_vars(StartRecover(s))

\* The harness of the aggregator tests seen from the senders: the sensors
\* are scheduled fairly and nothing is assumed of the reader, which may
\* stop receiving at any time.
SpecSensors == InitAggregator /\ [][NextAggregator]_vars /\ FairSensors

\* The full program with a smaller sensorCount.
InitFew ==
    /\ ctx = FALSE
    /\ dataCh = <<>>
    /\ chClosed = FALSE
    /\ enableNATS \in BOOLEAN
    /\ chCap = Capacity
    /\ sensorCount = FewSensors
    /\ nilLogger = FALSE
    /\ mainpc = "spawn"
    /\ mainI = 1
    /\ sensorsWg = 0
    /\ aggregatorWg = 1
    /\ publisherWg = IF enableNATS THEN 1 ELSE 0
    /\ wpc = [s \in Sensors |-> "none"]
    /\ closerpc = "none"
    /\ spc = [s \in Sensors |-> "idle"]
    /\ sampled = [s \in Sensors |-> 0]
    /\ sent = [s \in Sensors |-> 0]
    /\ restarts = [s \in Sensors |-> 0]
    /\ activeSensors = 0
    /\ inFlight = {}
    /\ faultsLive = [s \in Sensors |-> 0]
    /\ natsClosed = FALSE
    /\ apc = "select"
    /\ count = 0
    /\ ppc = IF enableNATS THEN "select" ELSE "off"
    /\ pubData = NoData
    /\ successCount = 0
    /\ failureCount = 0
    /\ natsFailures = [s \in Sensors |-> 0]

\* main is scheduled: its loop, its barriers and its return are taken once
\* they can be.
FairMain ==
    /\ WF_vars(MainSpawn)
    /\ WF_vars(MainLaunchCloser)
    /\ WF_vars(MainWaitAggregator)
    /\ WF_vars(MainWaitPublisher)
    /\ WF_vars(MainReturn)

\* The full program with main and the two consumers scheduled fairly;
\* nothing is assumed of the sensors, of the wrappers or of the closer.
SpecShutdown ==
    InitFew /\ [][Next]_vars /\ FairMain /\ FairAggregator /\ FairPublisher

\* The full program with the sensor goroutines scheduled fairly and
\* nothing assumed of main: the process may go on for as long as it likes
\* after the close.
SpecAfterClose == InitFew /\ [][Next]_vars /\ FairSensors

\* The same harness with every component constructed as the aggregator
\* tests construct the Aggregator, without metrics and without a logger:
\* sensor.Start is handed a nil logger.
InitNilLogger ==
    /\ ctx = FALSE
    /\ dataCh = <<>>
    /\ chClosed = FALSE
    /\ enableNATS = FALSE
    /\ chCap = Capacity
    /\ sensorCount = NumSensors
    /\ nilLogger = TRUE
    /\ mainpc = "test"
    /\ mainI = 1
    /\ sensorsWg = 0
    /\ aggregatorWg = 1
    /\ publisherWg = 0
    /\ wpc = [s \in Sensors |-> "none"]
    /\ closerpc = "none"
    /\ spc = [s \in Sensors |-> "starting"]
    /\ sampled = [s \in Sensors |-> 0]
    /\ sent = [s \in Sensors |-> 0]
    /\ restarts = [s \in Sensors |-> 0]
    /\ activeSensors = 0
    /\ inFlight = {}
    /\ faultsLive = [s \in Sensors |-> 0]
    /\ natsClosed = FALSE
    /\ apc = "select"
    /\ count = 0
    /\ ppc = "off"
    /\ pubData = NoData
    /\ successCount = 0
    /\ failureCount = 0
    /\ natsFailures = [s \in Sensors |-> 0]

SpecNilLogger == InitNilLogger /\ [][NextAggregator]_vars

\* ------------------------------------------------------------ auxiliary
\* A step of the fault of slot s: the panic in Run, or the deferred
\* function of Start handling it.
FaultStep(s) ==
    \/ spc[s] = "send" /\ spc'[s] = "panicked"
    \/ spc[s] = "panicked" /\ spc'[s] # "panicked"

\* The slots with a Run invocation between its ActiveSensors.Inc and the
\* end of its unwinding.
ActiveRuns == {s \in Sensors : spc[s] \in {"select", "send"}}

\* Readings Publisher.Run has received: those whose publish has returned
\* and the one it holds.
PubReceived ==
    successCount + failureCount + (IF ppc = "publish" THEN 1 ELSE 0)

\* The slots main's loop launches.
Launched == 1..sensorCount

\* The readings of one id buffered in the queue, oldest first.
SeqOf(id) == SelectSeq(dataCh, LAMBDA r : r[1] = id)

\* The goroutine of the slot has ended, or it is blocked in a send that no
\* room in the queue lets complete.
Quiescent(s) ==
    \/ spc[s] = "stopped"
    \/ spc[s] = "send" /\ ~chClosed /\ Len(dataCh) >= chCap

\* Readings of one id buffered in the queue.
QueuedOf(id) ==
    Cardinality({i \in 1..Len(dataCh) : dataCh[i][1] = id})

\* 1 if the Publisher holds a reading of the id whose publish has not
\* returned, else 0.
PublishingOf(id) ==
    IF ppc = "publish" /\ pubData[1] = id THEN 1 ELSE 0

\* Readings all producers have enqueued so far.
TotalSent == SumOver(sent, Sensors)

\* Slot s has suffered a fault: its last sampled reading was never sent.
Faulted(s) ==
    \/ spc[s] = "panicked"
    \/ spc[s] # "send" /\ sampled[s] > sent[s]

\* --------------------------------------------------------------- claims

\* C1: once close(dataCh) has run no sensor goroutine is at (executing or
\* blocked in) its send on dataCh, and no sensor ever suffers the send on
\* closed channel fault.
C1_NoSendAfterClose ==
    \A s \in Sensors :
        /\ ~(chClosed /\ spc[s] = "send")
        /\ spc[s] # "panicked"

\* C2: when close(dataCh) has run every producer slot is STOPPED: every
\* goroutine launched by sensor.Start has returned from Run for good.
C2_AllStoppedAtClose ==
    closerpc = "closed" => \A s \in Sensors : spc[s] = "stopped"

\* C3: no send on dataCh completes in a state in which ctx is already
\* cancelled.
C3_NoSendAfterCancel ==
    [][ctx => sent' = sent]_vars

\* C4: Aggregator.Run has returned only if the queue is closed and empty.
C4_DrainToCompletion ==
    apc = "returned" => (chClosed /\ dataCh = <<>>)

\* C5: with no producer fault and the Publisher disabled, when main has
\* ended the Aggregator's count equals the number of readings enqueued.
C5_CountEqualsSent ==
    (mainpc = "ended" /\ ~enableNATS /\ \A s \in Sensors : ~Faulted(s))
        => count = TotalSent

\* C6: a send that was in flight when cancellation occurred and has not
\* completed yet is still in progress (its slot has neither faulted nor
\* stopped) and its slot is not yet counted as finished by the barrier.
C6_NoInFlightLoss ==
    \A s \in inFlight : spc[s] = "send" /\ wpc[s] # "done"

\* C7: after the cancellation signal is set no Run invocation ends by a
\* fault.
C7_CleanReturnAfterCancel ==
    ctx => \A s \in Sensors : spc[s] \notin {"panicked"}

\* C8: the number of readings buffered in the queue is between 0 and the
\* capacity.
C8_QueueBounded ==
    Len(dataCh) >= 0 /\ Len(dataCh) <= Capacity

\* C8 witness: the queue is full, no consumer has received anything and a
\* producer is blocked in its send.
C8_Witness ==
    /\ Len(dataCh) = Capacity
    /\ count = 0 /\ successCount + failureCount = 0 /\ ppc # "publish"
    /\ \E s \in Sensors : spc[s] = "send"

\* C9: every reading received from the queue is observed by the
\* Aggregator: what has left the queue is what the Aggregator has counted.
C9_AggregatorSeesAll ==
    count = TotalSent - Len(dataCh)

\* C10: whenever the barrier of Start handles a fault with the context not
\* cancelled, it counts a restart and starts a new Run for the same id;
\* this holds for every fault of the slot.
C10_RestartAfterEveryFault ==
    [][\A s \in Sensors :
          (spc[s] = "panicked" /\ ~ctx /\ spc'[s] # spc[s])
              => (spc'[s] = "starting" /\ restarts'[s] = restarts[s] + 1)]_vars

\* C10 witness: a slot has been restarted after a second fault with the
\* context live and is running again.
C10_Witness ==
    \E s \in Sensors :
        restarts[s] >= 2 /\ spc[s] = "select" /\ chClosed /\ ~ctx

C12_NoRestartAfterCancel ==
    [][ctx => \A s \in Sensors :
                /\ restarts'[s] = restarts[s]
                /\ spc'[s] = "starting" => spc[s] \in {"idle", "starting"}]_vars

\* C12 witness: the race: a restart was scheduled with the context live
\* and the cancellation is set before the new Run begins.
C12_Witness ==
    \E s \in Sensors : ctx /\ spc[s] = "starting" /\ restarts[s] >= 1

\* C13: a stopped slot stays stopped: it starts no Run, samples and
\* enqueues nothing and records no restart.
C13_StoppedTerminal ==
    [][\A s \in Sensors :
          spc[s] = "stopped" =>
              /\ spc'[s] = "stopped"
              /\ sent'[s] = sent[s]
              /\ sampled'[s] = sampled[s]
              /\ restarts'[s] = restarts[s]]_vars

\* C13 witness: one slot stopped by a fault handled after cancellation,
\* another by a clean return after it had enqueued a reading.
C13_Witness ==
    \E s, u \in Sensors :
        /\ spc[s] = "stopped" /\ Faulted(s)
        /\ spc[u] = "stopped" /\ ~Faulted(u) /\ sent[u] > 0

\* C14: main's wait for the Aggregator has completed only if
\* close(dataCh) has been executed.
C14_CloseBeforeConsumersWait ==
    mainpc \in {"waitPub", "exit", "ended"} => chClosed

\* C15: the final log line is emitted only when every producer goroutine
\* has terminated and every consumer has returned.
C15_FinalLogAfterAll ==
    mainpc \in {"exit", "ended"} =>
        /\ \A s \in Sensors :
              spc[s] \notin {"starting", "select", "send", "panicked"}
        /\ apc = "returned"
        /\ enableNATS => ppc = "returned"

\* C16: when the program has terminated close(dataCh) has been executed.
C16_ClosedBeforeExit ==
    mainpc = "ended" => chClosed

\* C17: the queue changes its closed state only by the one step of the
\* closer goroutine, from open to closed.
C17_SingleClose ==
    [][chClosed' # chClosed =>
          (~chClosed /\ closerpc = "wait" /\ closerpc' = "closed")]_vars

\* C17 witness: the closer has closed the queue after a producer stopped
\* and the Aggregator returned.
C17_Witness ==
    /\ chClosed /\ closerpc = "closed"
    /\ apc = "returned"
    /\ \E s \in Sensors : spc[s] = "stopped"

\* C18: the broker client is closed only when Publisher.Run has returned.
C18_BrokerClosedAfterPublisher ==
    natsClosed => ppc = "returned"

\* C18 witness: the broker client is closed after a Publisher that handled
\* a reading has returned.
C18_Witness ==
    natsClosed /\ ppc = "returned" /\ successCount + failureCount > 0

C20_ReturnsAfterClose ==
    chClosed ~> apc = "returned"

\* C20 witness: the Aggregator has returned on the closed channel, with
\* the context live, after receiving a reading.
C20_Witness ==
    chClosed /\ ~ctx /\ apc = "returned" /\ count > 0
\* C21: Publisher.Run returns after its context is cancelled, whether or
\* not the channel is ever closed and whatever the publish attempts return.
C21_PublisherReturnsAfterCancel ==
    ctx ~> (ppc = "returned")

\* Run has returned on cancellation alone, every publish having failed.
C21_Witness ==
    /\ ctx
    /\ ~chClosed
    /\ ppc = "returned"
    /\ failureCount > 0
    /\ successCount = 0

\* C22: Publisher.Run returns after the channel is closed, once the readings
\* still buffered have been handled, without any cancellation.
C22_PublisherReturnsAfterClose ==
    chClosed ~> (ppc = "returned" /\ (~ctx => Len(dataCh) = 0))

\* Run has returned on the close alone, after handling readings.
C22_Witness ==
    /\ chClosed
    /\ ~ctx
    /\ ppc = "returned"
    /\ Len(dataCh) = 0
    /\ successCount + failureCount > 0

\* C23: each reading the Publisher handles raises exactly one of
\* successCount and failureCount by one and leaves Run in its loop, the two
\* counters add up to the readings handled, and while no publish has
\* succeeded the failure metric of each id is the number of that id's
\* readings handled (the Publisher being the only reader).
C23_OneCounterPerReading ==
    [][/\ successCount' + failureCount' =
            TotalSent' - Len(dataCh') - count'
                - (IF ppc' = "publish" THEN 1 ELSE 0)
       /\ (successCount' = 0 /\ apc' = "none") =>
            \A id \in Sensors :
                natsFailures'[id] = sent'[id] - QueuedOf(id)' - PublishingOf(id)'
       /\ IF ppc = "publish" /\ ppc' # "publish"
          THEN /\ ppc' = "select"
               /\ successCount' + failureCount'
                    = successCount + failureCount + 1
               /\ successCount' \in {successCount, successCount + 1}
               /\ failureCount' \in {failureCount, failureCount + 1}
          ELSE /\ successCount' = successCount
               /\ failureCount' = failureCount
               /\ natsFailures' = natsFailures]_vars

\* Every publish failed, readings of two ids were handled one after the
\* other, and Run is still in its loop.
C23_Witness ==
    /\ successCount = 0
    /\ failureCount >= 2
    /\ \E s, u \in Sensors :
          s # u /\ natsFailures[s] >= 1 /\ natsFailures[u] >= 1
    /\ ppc = "select"

\* C24: a reading is handed to publish once: the return of publish, failed
\* or not, ends the handling of the reading, and only a producer's send
\* ever adds a reading to the queue, so no reading comes back to it.
C24_AtMostOnce ==
    [][/\ (ppc = "publish"
            /\ <<successCount', failureCount'>>
                    # <<successCount, failureCount>>) =>
            /\ pubData' = NoData
            /\ ppc' = "select"
            /\ dataCh' = dataCh
       /\ dataCh' # dataCh =>
            \/ Len(dataCh) > 0 /\ dataCh' = Tail(dataCh)
            \/ \E s \in Sensors :
                  /\ spc[s] = "send"
                  /\ sent'[s] = sent[s] + 1
                  /\ dataCh' = Append(dataCh, SensorData(s, sampled[s]))
       /\ \A i \in 1..Len(dataCh') :
            /\ dataCh'[i] # pubData'
            /\ \A j \in 1..Len(dataCh') : dataCh'[i] = dataCh'[j] => i = j]_vars

\* A publish has failed, Run went on, and the reading is nowhere: neither
\* held by the Publisher nor in the queue.
C24_Witness ==
    /\ failureCount >= 1
    /\ successCount = 0
    /\ ppc = "select"
    /\ pubData = NoData
    /\ Len(dataCh) = 0
    /\ count = 0
    /\ TotalSent = 1

\* C25: every reading a producer has sampled is in the queue or beyond it,
\* or is the one reading the producer is still blocked sending; none is
\* discarded.
C25_EverySampleEnqueued ==
    \A s \in Sensors :
        sampled[s] = sent[s] + (IF spc[s] = "send" THEN 1 ELSE 0)

\* C26: the step in which Run takes the ctx.Done branch emits nothing and
\* ends the goroutine, and after a cancellation every sensor eventually
\* stays quiescent.
C26_QuiescentAfterCancel ==
    /\ [][\A s \in Sensors :
            (spc[s] = "select" /\ spc'[s] # "select" /\ sampled'[s] = sampled[s])
                => /\ ctx
                   /\ spc'[s] = "stopped"
                   /\ dataCh' = dataCh
                   /\ sent' = sent]_vars
    /\ [](ctx => <>[](\A s \in Sensors : Quiescent(s)))

\* After the cancellation one sensor has returned from Run having sent a
\* reading before, while another is blocked on the full queue.
C26_Witness ==
    /\ ctx
    /\ ~chClosed
    /\ \E s, u \in Sensors :
          /\ spc[s] = "stopped" /\ sent[s] >= 1 /\ sampled[s] = sent[s]
          /\ spc[u] = "send" /\ Len(dataCh) >= chCap

\* C27: the readings of one id that the queue holds are the last ones the
\* slot enqueued, in the order it enqueued them, and a reading the
\* Publisher holds was enqueued before every reading of its id still
\* queued: each id's readings leave the queue in the order they entered.
C27_FifoPerProducer ==
    \A id \in Sensors :
        LET q == SeqOf(id) IN
        /\ \A i \in 1..Len(q) : q[i][2] = sent[id] - Len(q) + i
        /\ (ppc = "publish" /\ pubData[1] = id)
                => pubData[2] <= sent[id] - Len(q)

\* Two readings of one id are queued at once under two live consumers.
C27_Witness ==
    /\ \E id \in Sensors : Len(SeqOf(id)) >= 2
    /\ apc = "select"
    /\ ppc = "select"

\* C28: with a nil logger no fault ends the process: a panic of Run is
\* recovered by Start and the slot goes on.
C28_NilLoggerNeverFaults ==
    nilLogger => mainpc # "crashed"

\* C29: a fault of one slot never ends the process, and the steps of the
\* fault change nothing of the other slots, of the Aggregator, of the
\* Publisher, or of the queue.
C29_FaultContained ==
    [][/\ mainpc' # "crashed"
       /\ \A s \in Sensors :
            FaultStep(s) =>
                /\ mainpc' = mainpc
                /\ \A u \in Sensors \ {s} :
                      /\ spc'[u] = spc[u]
                      /\ sampled'[u] = sampled[u]
                      /\ sent'[u] = sent[u]
                      /\ restarts'[u] = restarts[u]
                /\ aggVars' = aggVars
                /\ pubVars' = pubVars
                /\ dataCh' = dataCh
                /\ chClosed' = chClosed
                /\ ctx' = ctx]_vars

\* One slot has faulted and been restarted while another slot runs, both
\* consumers are in their loops and a reading is queued.
C29_Witness ==
    /\ \E s, u \in Sensors :
          /\ s # u
          /\ restarts[s] >= 1
          /\ spc[u] \in {"select", "send"}
    /\ Len(dataCh) > 0
    /\ apc = "select"
    /\ ppc \in {"select", "publish"}
    /\ Running

\* C30: the ActiveSensors gauge counts exactly the slots with a Run
\* invocation in progress, one per slot at most, whatever the restarts, so
\* it never exceeds the number of slots.
C30_OneRunPerSlot ==
    /\ activeSensors = Cardinality(ActiveRuns)
    /\ activeSensors <= NumSensors

\* Every slot runs, one of them in a Run begun by a restart.
C30_Witness ==
    /\ activeSensors = NumSensors
    /\ \E s \in Sensors : restarts[s] >= 1 /\ spc[s] \in {"select", "send"}

\* C31: the readings enqueued are those still buffered, those the
\* Aggregator received and those the Publisher received, each counted
\* once; the reading the Publisher holds was enqueued and is no longer in
\* the queue.
C31_ReadingsConserved ==
    /\ TotalSent = Len(dataCh) + count + PubReceived
    /\ ppc = "publish" =>
            /\ pubData[1] \in Sensors
            /\ pubData[2] \in 1..sent[pubData[1]]
            /\ \A i \in 1..Len(dataCh) : dataCh[i] # pubData

\* Both consumers have received a reading.
C31_Witness ==
    /\ count >= 1
    /\ PubReceived >= 1
    /\ TotalSent >= 2

\* C32: the queue is closed, and a wrapper has called sensorsWg.Done, only
\* in states where ctx is cancelled; at the close every wrapper is done.
C32_CloseOnlyAfterCancel ==
    /\ (\E s \in Sensors : wpc[s] = "done") => ctx
    /\ chClosed => (ctx /\ \A s \in Launched : wpc[s] = "done")

\* The queue is closed while the process runs and a sensor goroutine is
\* still in its loop.
C32_Witness ==
    /\ chClosed
    /\ Running
    /\ \E s \in Sensors : spc[s] \in {"select", "send"}

\* C33: in the full program a slot faults only with the queue closed and
\* ctx cancelled, and no fault is ever followed by a restart: SensorRestarts
\* stays at zero for every id.
C33_CloseNeverRestarts ==
    \A s \in Sensors :
        /\ Faulted(s) => (chClosed /\ ctx)
        /\ faultsLive[s] = 0
        /\ restarts[s] = 0

\* A sensor has faulted on the closed queue and its goroutine has ended
\* without a restart, the process still running.
C33_Witness ==
    /\ Running
    /\ \E s \in Sensors :
          /\ Faulted(s)
          /\ spc[s] = "stopped"
          /\ restarts[s] = 0

\* C34: once ctx is cancelled main passes its barriers and returns.
C34_MainTerminates ==
    ctx ~> (mainpc = "ended")

\* main has returned with the queue full, a sender blocked on it and the
\* closer goroutine still waiting.
C34_Witness ==
    /\ mainpc = "ended"
    /\ closerpc = "wait"
    /\ ~chClosed
    /\ Len(dataCh) = chCap
    /\ \E s \in Launched : spc[s] = "send"

\* C35: after close(dataCh), unless the process ends first, the goroutine
\* of every launched sensor ends.
C35_SensorsEndAfterClose ==
    chClosed ~> (mainpc = "ended" \/ \A s \in Launched : spc[s] = "stopped")

\* The process still runs after the close, every sensor goroutine has
\* ended, and one of them was released from its send by a recovered fault
\* with the queue still full.
C35_Witness ==
    /\ chClosed
    /\ Running
    /\ \A s \in Launched : spc[s] = "stopped"
    /\ \E s \in Launched : Faulted(s)
    /\ Len(dataCh) = chCap

====
